---- MODULE Spec2Model ----
(***************************************************************************)
(* Knowledge Bot: the query-embed-retrieve pipeline of knowledge_bot.py    *)
(* (search_chunks_by_doc, render_knowledge_bot_tab), the pooled database   *)
(* gateway of utils/oracle_db.py and the chat adapter of utils/oci_chat.py.*)
(*                                                                         *)
(* One Streamlit session is modelled.  A rerun of the script renders the   *)
(* Knowledge Bot tab: it lists the document names, reads the widgets and   *)
(* handles the button that was clicked.  Every external collaborator       *)
(* (embedding service, database, chat service) answers nondeterministically*)
(* with one of the outcomes the code distinguishes.                        *)
(***************************************************************************)
EXTENDS Integers, Sequences, FiniteSets, TLC

(***************************************************************************)
(* Bounds of the model.                                                    *)
(***************************************************************************)
MaxChunks == 2      \* rows of doc_chunks
MaxDist == 1        \* cosine distances are drawn from 0..MaxDist
MaxTopK == 2        \* the slider offers 1..MaxTopK (1..20 in the program)
MaxSessions == 2    \* UI sessions (script threads) sharing the process

(***************************************************************************)
(* Program constants.                                                      *)
(***************************************************************************)
SubstrAmount == 8000   \* DBMS_LOB.SUBSTR(c.chunk_text, 8000, 1)

(***************************************************************************)
(* SQL NULL / Python None: a nullable value is the empty sequence (NULL)   *)
(* or a one-element sequence holding the value.                            *)
(***************************************************************************)
NULL == << >>
Some(v) == << v >>
IsNull(x) == x = << >>
Val(x) == x[1]

Min(a, b) == IF a <= b THEN a ELSE b

(***************************************************************************)
(* Strings are sequences of characters so that join and slicing are        *)
(* computed, not assumed.                                                  *)
(***************************************************************************)
Separator == << "\n", "\n" >>              \* the literal "\n\n" of line 340
Texts == { << "a" >>, << "b" >> }            \* non-empty stored chunk texts
Docs == { "guide.pdf", "empty.pdf" }       \* object_name values
JobIds == { 1, 2 }
ChunkIds == 1..MaxChunks
Queries == { " ", "q" }                    \* contents of the text area

\* str.strip() on the modelled queries: whitespace-only text becomes "".
Strip(q) == IF q = " " THEN "" ELSE q

VARIABLES
    doc_ingest_jobs,   \* table doc_ingest_jobs: job_id -> object_name
    doc_chunks,        \* table doc_chunks: chunk_id -> row
    pc,                \* position of the session's script run
    doc_names,         \* result of get_distinct_document_names
    selected_doc,      \* st.selectbox
    query,             \* st.text_area
    top_k,             \* st.slider
    button,            \* which st.button returned True in this run
    embeddings,        \* outcome of get_embeddings
    held,              \* pool connections acquired and not yet released
    calls,             \* external requests issued in this run, in order
    db_failed,         \* statements of search_chunks_by_doc that failed
    search_status,     \* "none" | "returned" | "raised" (search_chunks_by_doc)
    chunks,            \* the list bound to `chunks` in render_knowledge_bot_tab
    chat_context,      \* nullable: the context argument of chat_with_context
    response,          \* the hosted chat response handed to the probing code
    answer,            \* nullable: return value of chat_with_context
    outcome,           \* what the page shows when the handler is over
    first_result,      \* nullable: what an earlier, identical search returned
    admin,             \* the Admin tab: operations attempted, failed, shown
    env,               \* os.environ: DB_USER, DB_PASSWORD, DB_DSN
    pool,              \* oracle_db._pool: 0 is None, n is the n-th pool created
    pools_created,     \* number of pools oracledb.create_pool returned in the process
    env_loaded,        \* oracle_db._env_loaded
    dotenv,            \* what the .env file found by _load_env assigns
    tpc,               \* per session: position of its script thread in main()
    made,              \* per session: the pool its create_pool call returned
    session_db,        \* per session: st.session_state.db._pool (0: no "db")
    startup,           \* per session: what main() saw and reported in this run
    issued             \* per session: a statement / embed / chat call was issued

\* variables of the Knowledge Bot tab of one session
tabvars == << doc_ingest_jobs, doc_chunks, pc, doc_names, selected_doc, query, top_k,
              button, embeddings, held, calls, db_failed, search_status, chunks,
              chat_context, response, answer, outcome >>

\* variables of the process start-up and the shared pool
poolvars == << env, pool, pools_created, env_loaded, dotenv, tpc, made, session_db, startup, issued >>

\* what the Knowledge Bot tab leaves alone
extvars == << first_result, admin, poolvars >>

vars == << tabvars, extvars >>

Sessions == 1..MaxSessions
EnvNames == { "DB_USER", "DB_PASSWORD", "DB_DSN" }


(***************************************************************************)
(* The relational store.                                                   *)
(*                                                                         *)
(* A stored vector is identified by what vector_distance(.., COSINE)       *)
(* yields for it against the query vector: a distance in 0..MaxDist, or    *)
(* NULL (the result column is nullable; line 158 handles the NULL).        *)
(***************************************************************************)
Distances == { NULL } \cup { Some(d) : d \in 0..MaxDist }
Vectors == [ distance : Distances ]
ChunkRows == [ job_id : JobIds,
               embed_vector : { NULL } \cup { Some(v) : v \in Vectors },
               chunk_text : { NULL } \cup { Some(t) : t \in Texts } ]

\* Chunk identifiers are opaque, so stores that differ only by a renaming of
\* the identifiers are explored once: rows are laid out in a fixed order.
VectorCode(ev) ==
    IF IsNull(ev) THEN 0
    ELSE IF IsNull(Val(ev).distance) THEN 1
    ELSE 2 + Val(Val(ev).distance)
TextCode(t) == IF IsNull(t) THEN 0 ELSE IF Val(t) = << "a" >> THEN 1 ELSE 2
RowCode(r) == (r.job_id * (MaxDist + 3) + VectorCode(r.embed_vector)) * 3 + TextCode(r.chunk_text)
Stores == { s \in [ChunkIds -> ChunkRows] :
              \A i, j \in ChunkIds : i < j => RowCode(s[i]) <= RowCode(s[j]) }

\* vector_distance(c.embed_vector, TO_VECTOR(:query_vector), COSINE)
vector_distance(ev) == IF IsNull(ev) THEN NULL ELSE Val(ev).distance

\* DBMS_LOB.SUBSTR(lob, amount, offset): NULL for a NULL or empty LOB.
DBMS_LOB_SUBSTR(lob, amount, offset) ==
    IF IsNull(lob) \/ Len(Val(lob)) < offset THEN NULL
    ELSE Some(SubSeq(Val(lob), offset, Min(Len(Val(lob)), offset + amount - 1)))

\* Mutant: the filter `c.embed_vector IS NOT NULL` is missing.
WhereClause_without_vector_filter(jobs, tbl, doc_name) ==
    { c \in DOMAIN tbl : /\ tbl[c].job_id \in DOMAIN jobs
                         /\ jobs[tbl[c].job_id] = doc_name }

\* FROM doc_chunks c JOIN doc_ingest_jobs j ON j.job_id = c.job_id
\* WHERE j.object_name = :doc_name AND c.embed_vector IS NOT NULL
WhereClause(jobs, tbl, doc_name) ==
    { c \in DOMAIN tbl : /\ tbl[c].job_id \in DOMAIN jobs
                         /\ jobs[tbl[c].job_id] = doc_name
                         /\ ~IsNull(tbl[c].embed_vector) }

\* The SELECT list of the similarity query for chunk c.
SelectRow(jobs, tbl, c) ==
    [ job_id |-> tbl[c].job_id,
      chunk_id |-> c,
      chunk_text |-> DBMS_LOB_SUBSTR(tbl[c].chunk_text, SubstrAmount, 1),
      similarity |-> vector_distance(tbl[c].embed_vector),
      object_name |-> jobs[tbl[c].job_id] ]

\* ORDER BY similarity: ascending, NULLs last (Oracle's default for ASC).
\* TRUE when row a may not come after row b.
OrderedBefore(a, b) ==
    /\ ~IsNull(a.similarity)
    /\ (IsNull(b.similarity) \/ Val(a.similarity) < Val(b.similarity))

\* Mutant: the ORDER BY clause is missing, rows come in any order.
OrderBy_unordered(rowset) ==
    LET n == Cardinality(rowset)
    IN { p \in [1..n -> rowset] : \A i, j \in 1..n : i # j => p[i] # p[j] }

\* All orders in which the database may deliver the rows of S: the ORDER BY
\* names no tie-breaker, so rows of equal distance come in any order.
OrderBy(rowset) ==
    LET n == Cardinality(rowset)
    IN { p \in [1..n -> rowset] :
           /\ \A i, j \in 1..n : i # j => p[i] # p[j]
           /\ \A i, j \in 1..n : i < j => ~OrderedBefore(p[j], p[i]) }

\* Mutant: the FETCH FIRST clause is missing.
FetchFirst_unlimited(p, k) == p

\* FETCH FIRST :top_k ROWS ONLY
FetchFirst(p, k) == SubSeq(p, 1, Min(k, Len(p)))

\* The result sets the similarity statement of lines 129-142 may return.
SimilarityQuery(jobs, tbl, doc_name, k) ==
    { FetchFirst(p, k) :
        p \in OrderBy({ SelectRow(jobs, tbl, c) : c \in WhereClause(jobs, tbl, doc_name) }) }

\* SELECT DISTINCT j.object_name FROM doc_ingest_jobs j WHERE EXISTS (chunk of j)
\* (the ORDER BY only fixes the order of the options in the select box)
DistinctDocumentNames(jobs, tbl) ==
    { jobs[j] : j \in { i \in DOMAIN jobs : \E c \in DOMAIN tbl : tbl[c].job_id = i } }

(***************************************************************************)
(* search_chunks_by_doc, lines 153-162: rows -> list of dicts.             *)
(***************************************************************************)
ResultDict(r) ==
    [ job_id |-> r.job_id,
      chunk_id |-> r.chunk_id,
      chunk_text |-> IF IsNull(r.chunk_text) \/ Val(r.chunk_text) = << >>
                     THEN << >> ELSE Val(r.chunk_text),       \* r[2] or ""
      similarity |-> r.similarity,                             \* float or None
      object_name |-> r.object_name ]

ResultList(rows) == [ i \in 1..Len(rows) |-> ResultDict(rows[i]) ]

(***************************************************************************)
(* get_embeddings outcomes for the one-element batch [query].              *)
(* value is None (NULL) or Some(list); a list element is None or a vector. *)
(***************************************************************************)
QueryVector == Some("v")
EmbedOutcomes ==
    { [ raised |-> TRUE, value |-> NULL ] } \cup
    { [ raised |-> FALSE, value |-> v ] :
        v \in { Some(<< >>), Some(<< QueryVector >>), Some(<< NULL >>),
                Some(<< QueryVector, QueryVector >>) } }
NoEmbedding == [ raised |-> FALSE, value |-> NULL ]

\* Mutant: only the emptiness test `not embeddings` is made.
EmbeddingRejected_empty_only(e) == IsNull(e.value) \/ Len(Val(e.value)) = 0

\* line 105: `not embeddings or len(embeddings) != 1`
EmbeddingRejected(e) == IsNull(e.value) \/ Len(Val(e.value)) # 1

\* lines 111-113 raise TypeError when the single element is None.
EmbeddingUnusable(e) == IsNull(Val(e.value)[1])

(***************************************************************************)
(* Connection pool bookkeeping of DatabaseManager.                         *)
(***************************************************************************)
\* self._pool.acquire(), oracle_db.py lines 90 and 109
PoolAcquire(h) == h + 1

\* Mutant: the release sits on the success path only, not in a finally block.
ReleaseOnSuccessOnly(h, ok) == IF ok THEN h - 1 ELSE h

\* the finally block of execute_query / execute_procedure: the connection is
\* released whether the statement succeeded (ok) or raised.
FinallyRelease(h, ok) == h - 1


(***************************************************************************)
(* chat_with_context (utils/oci_chat.py).                                  *)
(*                                                                         *)
(* A hosted response is described by the attribute paths hasattr() finds   *)
(* on it.  The value stored at a path records the path it was read from,   *)
(* so that the probing order is observable; reply is the text it carries   *)
(* (None, "" or a text).                                                   *)
(***************************************************************************)
Replies == { NULL, Some(<< >>), Some(<< "y" >>) }
AttrPaths == { "data", "data.chat_response", "data.chat_response.message",
               "data.chat_response.message.content", "data.chat_response.content",
               "data.chat_response.text", "data.content", "content" }
Parent(p) ==
    CASE p = "data.chat_response" -> "data"
      [] p = "data.content" -> "data"
      [] p = "data.chat_response.message" -> "data.chat_response"
      [] p = "data.chat_response.content" -> "data.chat_response"
      [] p = "data.chat_response.text" -> "data.chat_response"
      [] p = "data.chat_response.message.content" -> "data.chat_response.message"
      [] OTHER -> p
\* an attribute can only exist on an object that exists
Shapes == { a \in SUBSET AttrPaths : \A p \in a : Parent(p) \in a }
ChatResponses == [ raises : BOOLEAN, attrs : Shapes, reply : Replies ]
NoResponse == [ raises |-> FALSE, attrs |-> {}, reply |-> NULL ]

hasattr(r, p) == p \in r.attrs
getattr(r, p) == Some([ path |-> p, text |-> r.reply ])

\* Mutant: the chat_response.text probe runs before the chat_response.content probe.
chat_with_context_text_first(r) ==
    IF r.raises THEN NULL
    ELSE IF hasattr(r, "data") /\ hasattr(r, "data.chat_response")
            /\ hasattr(r, "data.chat_response.message")
            /\ hasattr(r, "data.chat_response.message.content")
         THEN getattr(r, "data.chat_response.message.content")
    ELSE IF hasattr(r, "data") /\ hasattr(r, "data.chat_response")
            /\ hasattr(r, "data.chat_response.text")
         THEN getattr(r, "data.chat_response.text")
    ELSE IF hasattr(r, "data") /\ hasattr(r, "data.chat_response")
            /\ hasattr(r, "data.chat_response.content")
         THEN getattr(r, "data.chat_response.content")
    ELSE IF hasattr(r, "data") /\ hasattr(r, "data.content")
         THEN getattr(r, "data.content")
    ELSE IF hasattr(r, "content") THEN getattr(r, "content")
    ELSE NULL

\* lines 46-86: the try block; client.chat raising lands in `except` (None).
chat_with_context(r) ==
    IF r.raises THEN NULL
    ELSE IF hasattr(r, "data") /\ hasattr(r, "data.chat_response")
            /\ hasattr(r, "data.chat_response.message")
            /\ hasattr(r, "data.chat_response.message.content")
         THEN getattr(r, "data.chat_response.message.content")
    ELSE IF hasattr(r, "data") /\ hasattr(r, "data.chat_response")
            /\ hasattr(r, "data.chat_response.content")
         THEN getattr(r, "data.chat_response.content")
    ELSE IF hasattr(r, "data") /\ hasattr(r, "data.chat_response")
            /\ hasattr(r, "data.chat_response.text")
         THEN getattr(r, "data.chat_response.text")
    ELSE IF hasattr(r, "data") /\ hasattr(r, "data.content")
         THEN getattr(r, "data.content")
    ELSE IF hasattr(r, "content") THEN getattr(r, "content")
    ELSE NULL

\* `if answer:` (line 347): None and "" are falsy.
Truthy(a) == ~IsNull(a) /\ ~IsNull(Val(a).text) /\ Val(Val(a).text) # << >>

\* The responses the session's chat call is answered with: a failed call, an
\* unrecognised shape, a reply text, an empty reply.
SessionResponses ==
    { [ raises |-> TRUE, attrs |-> {}, reply |-> NULL ],
      [ raises |-> FALSE, attrs |-> { "data" }, reply |-> Some(<< "y" >>) ],
      [ raises |-> FALSE, attrs |-> { "data", "data.chat_response", "data.chat_response.text" },
        reply |-> Some(<< "y" >>) ],
      [ raises |-> FALSE, attrs |-> { "data", "data.chat_response", "data.chat_response.text" },
        reply |-> Some(<< >>) ] }

(***************************************************************************)
(* Context assembly, line 340: "\n\n".join(c["chunk_text"] for c in chunks)*)
(***************************************************************************)
RECURSIVE Join(_, _)
Join(sep, items) ==
    IF items = << >> THEN << >>
    ELSE IF Len(items) = 1 THEN items[1]
    ELSE items[1] \o sep \o Join(sep, Tail(items))

ChunkTexts(cs) == [ i \in 1..Len(cs) |-> cs[i].chunk_text ]

\* Mutant: empty chunk texts are filtered out before joining.
Context_skip_empty(cs) == Join(Separator, SelectSeq(ChunkTexts(cs), LAMBDA t : t # << >>))

Context(cs) == Join(Separator, ChunkTexts(cs))

\* f"{c['similarity']:.4f}" (lines 318, 359) raises TypeError on None.
FormatRaises(cs) == \E i \in 1..Len(cs) : IsNull(cs[i].similarity)


(***************************************************************************)
(* The session.                                                            *)
(***************************************************************************)
Jobs == [ j \in JobIds |-> IF j = 1 THEN "guide.pdf" ELSE "empty.pdf" ]

RunReset ==
    /\ doc_names = {}
    /\ selected_doc = ""
    /\ query = ""
    /\ top_k = 1
    /\ button = "none"
    /\ embeddings = NoEmbedding
    /\ calls = << >>
    /\ db_failed = {}
    /\ search_status = "none"
    /\ chunks = << >>
    /\ chat_context = NULL
    /\ response = NoResponse
    /\ answer = NULL
    /\ outcome = "rendering"

\* The Admin tab before any of its operations ran (render_admin_tab).
SchedulerJobs == { "POLL_JOB", "EMBED_JOB" }    \* rows of user_scheduler_jobs
Procedures == { "poll_object_storage_to_jobs", "chunk_worker", "embed_worker" }
AdminFresh(enabled) ==
    [ scheduler |-> enabled,   \* user_scheduler_jobs: job_name -> enabled
      listed |-> NULL,         \* nullable: what get_scheduler_jobs returned
      target |-> "",           \* the job or procedure the clicked button names
      attempts |-> << >>,      \* operations attempted in this run, in order
      failed |-> {},           \* operations that failed
      shown |-> {},            \* operations whose failure st.error displayed
      raised |-> FALSE,        \* an exception left render_admin_tab
      result |-> NULL,         \* nullable: return of toggle / run_procedure
      committed |-> FALSE ]    \* the PL/SQL block executed and was committed
AdminIdle == AdminFresh([ j \in SchedulerJobs |-> TRUE ])

\* A script run before main() reached its environment check.
NoStartup == [ missing |-> FALSE, report |-> "none", stored |-> FALSE ]

\* The process before main() ran in any session: oracle_db.py lines 13-14.
PoolIdle ==
    /\ pool = 0
    /\ pools_created = 0
    /\ env_loaded = FALSE
    /\ dotenv = [ n \in EnvNames |-> NULL ]
    /\ tpc = [ s \in Sessions |-> "main" ]
    /\ made = [ s \in Sessions |-> 0 ]
    /\ session_db = [ s \in Sessions |-> 0 ]
    /\ startup = [ s \in Sessions |-> NoStartup ]
    /\ issued = [ s \in Sessions |-> FALSE ]

\* The parts of the state the Knowledge Bot tab does not touch.
ExtIdle ==
    /\ first_result = NULL
    /\ admin = AdminIdle
    /\ env = [ n \in EnvNames |-> Some("x") ]
    /\ PoolIdle

Init ==
    /\ doc_ingest_jobs = Jobs
    /\ doc_chunks \in Stores
    /\ pc = "names_acquire"
    /\ held = 0
    /\ RunReset
    /\ ExtIdle

\* Streamlit runs the script again on the next interaction.
Rerun ==
    /\ pc \in { "done", "crashed" }
    /\ UNCHANGED extvars
    /\ pc' = "names_acquire"
    /\ doc_names' = {}
    /\ selected_doc' = ""
    /\ query' = ""
    /\ top_k' = 1
    /\ button' = "none"
    /\ embeddings' = NoEmbedding
    /\ calls' = << >>
    /\ db_failed' = {}
    /\ search_status' = "none"
    /\ chunks' = << >>
    /\ chat_context' = NULL
    /\ response' = NoResponse
    /\ answer' = NULL
    /\ outcome' = "rendering"
    /\ UNCHANGED << doc_ingest_jobs, doc_chunks, held >>

\* search_chunks_by_doc returns `result` to render_knowledge_bot_tab.
SearchReturns(result) ==
    /\ search_status' = "returned"
    /\ chunks' = result
    /\ pc' = "after_search"

\* get_distinct_document_names: db.execute_query(q, fetch_all=True), acquire.
\* A failure is caught (line 77): the names are [] and the tab shows a warning.
NamesAcquire(ok) ==
    /\ pc = "names_acquire"
    /\ UNCHANGED extvars
    /\ calls' = Append(calls, "names")
    /\ IF ok
       THEN /\ held' = PoolAcquire(held)
            /\ pc' = "names_exec"
            /\ UNCHANGED outcome
       ELSE /\ pc' = "done"
            /\ outcome' = "no_documents"
            /\ UNCHANGED held
    /\ UNCHANGED << doc_ingest_jobs, doc_chunks, doc_names, selected_doc, query, top_k,
                    button, embeddings, db_failed, search_status, chunks,
                    chat_context, response, answer >>

\* ... execute, fetchall, finally release (oracle_db.py 92-105); lines 271-273.
NamesExec(ok) ==
    /\ pc = "names_exec"
    /\ UNCHANGED extvars
    /\ held' = FinallyRelease(held, ok)
    /\ doc_names' = IF ok THEN DistinctDocumentNames(doc_ingest_jobs, doc_chunks) ELSE {}
    /\ IF doc_names' = {}
       THEN pc' = "done" /\ outcome' = "no_documents"
       ELSE pc' = "widgets" /\ UNCHANGED outcome
    /\ UNCHANGED << doc_ingest_jobs, doc_chunks, selected_doc, query, top_k,
                    button, embeddings, calls, db_failed, search_status, chunks,
                    chat_context, response, answer >>

\* Lines 275-297 / 324-327: the widget values of this run and the blank check.
\* b names the button clicked: one of the two Knowledge Bot buttons, or a
\* "Run ..." button of the Admin tab (knowledge_bot.py 417-433).
Widgets(doc, q, k, b) ==
    /\ pc = "widgets"
    /\ UNCHANGED extvars
    /\ doc \in doc_names
    /\ selected_doc' = doc
    /\ query' = q
    /\ top_k' = k
    /\ button' = b
    /\ IF b = "run_procedure"
       THEN pc' = "proc_acquire" /\ UNCHANGED outcome     \* no Knowledge Bot button
       ELSE IF Strip(q) = ""
       THEN pc' = "done" /\ outcome' = "enter_question"
       ELSE pc' = "oci_client" /\ UNCHANGED outcome
    /\ UNCHANGED << doc_ingest_jobs, doc_chunks, doc_names, embeddings, held, calls,
                    db_failed, search_status, chunks, chat_context, response, answer >>

\* get_oci_client() inside the try of lines 299-306 / 329-336: when it raises,
\* search_chunks_by_doc is not called and chunks = [].
GetOciClient(ok) ==
    /\ pc = "oci_client"
    /\ UNCHANGED extvars
    /\ IF ok
       THEN pc' = "embed" /\ UNCHANGED chunks
       ELSE pc' = "after_search" /\ chunks' = << >>
    /\ UNCHANGED << doc_ingest_jobs, doc_chunks, doc_names, selected_doc, query, top_k,
                    button, embeddings, held, calls, db_failed, search_status,
                    chat_context, response, answer, outcome >>

\* search_chunks_by_doc lines 99-113: the embedding call and its checks.
GetEmbeddings(e) ==
    /\ pc = "embed"
    /\ UNCHANGED extvars
    /\ embeddings' = e
    /\ calls' = Append(calls, "embed")
    /\ IF e.raised \/ EmbeddingRejected(e)
       THEN SearchReturns(<< >>)
       ELSE IF EmbeddingUnusable(e)
       THEN \* TypeError leaves search_chunks_by_doc; caught at lines 304 / 334
            /\ search_status' = "raised"
            /\ chunks' = << >>
            /\ pc' = "after_search"
       ELSE /\ pc' = "count_acquire"
            /\ UNCHANGED << search_status, chunks >>
    /\ UNCHANGED << doc_ingest_jobs, doc_chunks, doc_names, selected_doc, query, top_k,
                    button, held, db_failed, chat_context, response, answer, outcome >>

\* Line 122: the diagnostic count query, acquire.  Lines 125-126 catch a failure.
CountAcquire(ok) ==
    /\ pc = "count_acquire"
    /\ UNCHANGED extvars
    /\ calls' = Append(calls, "count")
    /\ IF ok
       THEN held' = PoolAcquire(held) /\ pc' = "count_exec" /\ UNCHANGED db_failed
       ELSE pc' = "sim_acquire" /\ db_failed' = db_failed \cup { "count" } /\ UNCHANGED held
    /\ UNCHANGED << doc_ingest_jobs, doc_chunks, doc_names, selected_doc, query, top_k,
                    button, embeddings, search_status, chunks, chat_context,
                    response, answer, outcome >>

\* ... execute, fetchone, finally release; the count is only logged.
CountExec(ok) ==
    /\ pc = "count_exec"
    /\ UNCHANGED extvars
    /\ held' = FinallyRelease(held, ok)
    /\ db_failed' = IF ok THEN db_failed ELSE db_failed \cup { "count" }
    /\ pc' = "sim_acquire"
    /\ UNCHANGED << doc_ingest_jobs, doc_chunks, doc_names, selected_doc, query, top_k,
                    button, embeddings, calls, search_status, chunks, chat_context,
                    response, answer, outcome >>

\* Mutant: the except clause of lines 166-168 is missing, the failure propagates.
VectorSearchFailed_propagates ==
    /\ search_status' = "raised"
    /\ chunks' = << >>
    /\ pc' = "after_search"

\* Mutant: the except clause runs the similarity query again.
VectorSearchFailed_retries ==
    /\ search_status' = search_status
    /\ chunks' = chunks
    /\ pc' = "sim_acquire"

\* Lines 166-168: a failure of the similarity query is logged and [] returned.
VectorSearchFailed == SearchReturns(<< >>)

\* Line 149: the similarity query, acquire.  Lines 166-168 catch a failure.
SimAcquire(ok) ==
    /\ pc = "sim_acquire"
    /\ UNCHANGED extvars
    /\ calls' = Append(calls, "similarity")
    /\ IF ok
       THEN /\ held' = PoolAcquire(held)
            /\ pc' = "sim_exec"
            /\ UNCHANGED << db_failed, search_status, chunks >>
       ELSE /\ db_failed' = db_failed \cup { "similarity" }
            /\ VectorSearchFailed
            /\ UNCHANGED held
    /\ UNCHANGED << doc_ingest_jobs, doc_chunks, doc_names, selected_doc, query, top_k,
                    button, embeddings, chat_context, response, answer, outcome >>

\* ... execute, fetchall, finally release; lines 150-168 build the result.
SimExec(ok) ==
    /\ pc = "sim_exec"
    /\ UNCHANGED extvars
    /\ held' = FinallyRelease(held, ok)
    /\ IF ok
       THEN /\ \E rows \in SimilarityQuery(doc_ingest_jobs, doc_chunks, selected_doc, top_k) :
                  SearchReturns(ResultList(rows))
            /\ UNCHANGED db_failed
       ELSE VectorSearchFailed /\ db_failed' = db_failed \cup { "similarity" }
    /\ UNCHANGED << doc_ingest_jobs, doc_chunks, doc_names, selected_doc, query, top_k,
                    button, embeddings, calls, chat_context, response, answer, outcome >>

\* Lines 307-322: "Show similar chunks only".
ShowChunks ==
    /\ pc = "after_search"
    /\ UNCHANGED extvars
    /\ button = "search_only"
    /\ IF chunks = << >>
       THEN pc' = "done" /\ outcome' = "no_chunks"
       ELSE IF FormatRaises(chunks)
       THEN pc' = "crashed" /\ outcome' = "exception"
       ELSE pc' = "done" /\ outcome' = "chunks_shown"
    /\ UNCHANGED << doc_ingest_jobs, doc_chunks, doc_names, selected_doc, query, top_k,
                    button, embeddings, held, calls, db_failed, search_status, chunks,
                    chat_context, response, answer >>

\* Lines 337-340: "Get RAG answer", the empty check and the context.
AssembleContext ==
    /\ pc = "after_search"
    /\ UNCHANGED extvars
    /\ button = "ask_rag"
    /\ IF chunks = << >>
       THEN pc' = "done" /\ outcome' = "no_answer" /\ UNCHANGED chat_context
       ELSE pc' = "chat" /\ chat_context' = Some(Context(chunks)) /\ UNCHANGED outcome
    /\ UNCHANGED << doc_ingest_jobs, doc_chunks, doc_names, selected_doc, query, top_k,
                    button, embeddings, held, calls, db_failed, search_status, chunks,
                    response, answer >>

\* Lines 341-365: the chat call and the rendering of its result.
ChatCall(r) ==
    /\ pc = "chat"
    /\ UNCHANGED extvars
    /\ calls' = Append(calls, "chat")
    /\ response' = r
    /\ answer' = chat_with_context(r)
    /\ IF ~Truthy(answer')
       THEN pc' = "done" /\ outcome' = "llm_failed"
       ELSE IF FormatRaises(chunks)
       THEN pc' = "crashed" /\ outcome' = "exception"
       ELSE pc' = "done" /\ outcome' = "answer_shown"
    /\ UNCHANGED << doc_ingest_jobs, doc_chunks, doc_names, selected_doc, query, top_k,
                    button, embeddings, held, db_failed, search_status, chunks,
                    chat_context >>

\* run_procedure / toggle_scheduler_job (lines 238-260): db.execute_procedure,
\* acquire (oracle_db.py 109).  A failure is caught and shown with st.error.
ProcAcquire(ok) ==
    /\ pc = "proc_acquire"
    /\ UNCHANGED extvars
    /\ calls' = Append(calls, "procedure")
    /\ IF ok
       THEN held' = PoolAcquire(held) /\ pc' = "proc_exec" /\ UNCHANGED outcome
       ELSE pc' = "done" /\ outcome' = "procedure_error" /\ UNCHANGED held
    /\ UNCHANGED << doc_ingest_jobs, doc_chunks, doc_names, selected_doc, query, top_k,
                    button, embeddings, db_failed, search_status, chunks,
                    chat_context, response, answer >>

\* ... execute, commit, (except: log, raise), finally release (oracle_db.py 111-122).
ProcExec(ok) ==
    /\ pc = "proc_exec"
    /\ UNCHANGED extvars
    /\ held' = FinallyRelease(held, ok)
    /\ pc' = "done"
    /\ outcome' = IF ok THEN "procedure_done" ELSE "procedure_error"
    /\ UNCHANGED << doc_ingest_jobs, doc_chunks, doc_names, selected_doc, query, top_k,
                    button, embeddings, calls, db_failed, search_status, chunks,
                    chat_context, response, answer >>

Buttons == { "search_only", "ask_rag", "run_procedure" }

Next ==
    \/ Rerun
    \/ \E ok \in BOOLEAN : NamesAcquire(ok)
    \/ \E ok \in BOOLEAN : NamesExec(ok)
    \/ \E doc \in Docs, q \in Queries, k \in 1..MaxTopK, b \in Buttons :
          Widgets(doc, q, k, b)
    \/ \E ok \in BOOLEAN : GetOciClient(ok)
    \/ \E e \in EmbedOutcomes : GetEmbeddings(e)
    \/ \E ok \in BOOLEAN : CountAcquire(ok)
    \/ \E ok \in BOOLEAN : CountExec(ok)
    \/ \E ok \in BOOLEAN : SimAcquire(ok)
    \/ \E ok \in BOOLEAN : SimExec(ok)
    \/ ShowChunks
    \/ AssembleContext
    \/ \E r \in SessionResponses : ChatCall(r)
    \/ \E ok \in BOOLEAN : ProcAcquire(ok)
    \/ \E ok \in BOOLEAN : ProcExec(ok)

Spec == Init /\ [][Next]_vars

(***************************************************************************)
(* chat_with_context on its own: every response shape is handed to the     *)
(* probing code once.                                                      *)
(***************************************************************************)
InitChat ==
    /\ doc_ingest_jobs = Jobs
    /\ doc_chunks = [ c \in ChunkIds |->
                        [ job_id |-> 1, embed_vector |-> NULL, chunk_text |-> NULL ] ]
    /\ pc = "chat_probe"
    /\ held = 0
    /\ doc_names = {}
    /\ selected_doc = ""
    /\ query = ""
    /\ top_k = 1
    /\ button = "none"
    /\ embeddings = NoEmbedding
    /\ calls = << >>
    /\ db_failed = {}
    /\ search_status = "none"
    /\ chunks = << >>
    /\ chat_context = NULL
    /\ response \in ChatResponses
    /\ answer = NULL
    /\ outcome = "rendering"
    /\ ExtIdle

\* oci_chat.py lines 66-86 applied to the response of client.chat.
ChatProbe ==
    /\ pc = "chat_probe"
    /\ UNCHANGED extvars
    /\ answer' = chat_with_context(response)
    /\ pc' = "chat_done"
    /\ UNCHANGED << doc_ingest_jobs, doc_chunks, doc_names, selected_doc, query, top_k,
                    button, embeddings, held, calls, db_failed, search_status, chunks,
                    chat_context, response, outcome >>

NextChat == ChatProbe

SpecChat == InitChat /\ [][NextChat]_vars

(***************************************************************************)
(* Start-up and the shared pool: main (lines 487-495), get_db (44-47),     *)
(* DatabaseManager.__init__ and _get_pool (oracle_db.py 39-79).  Every UI  *)
(* session runs the script in a thread of its own; the threads share the   *)
(* module globals _pool and _env_loaded and the process environment, and   *)
(* may be switched between any two of the steps below.                     *)
(***************************************************************************)
EnvValues == { NULL, Some(""), Some("x") }     \* os.getenv: None, "", a value

\* The .env file _load_env finds (lines 24-33): none or the one already loaded
\* at knowledge_bot.py line 14, one that assigns all three names, one with an
\* empty DB_PASSWORD= line.
DotenvFiles ==
    { [ n \in EnvNames |-> NULL ],
      [ n \in EnvNames |-> Some("x") ],
      [ n \in EnvNames |-> IF n = "DB_PASSWORD" THEN Some("") ELSE NULL ] }

\* load_dotenv(path, override=True): the names of the file replace the environment's.
load_dotenv(e, f) == [ n \in EnvNames |-> IF IsNull(f[n]) THEN e[n] ELSE f[n] ]

\* Truthiness of an os.getenv result inside all([...]).
EnvSet(v) == ~IsNull(v) /\ Val(v) # ""

\* One of the three names is unset or empty in the environment.
Missing(e) == \E n \in EnvNames : IsNull(e[n]) \/ Val(e[n]) = ""

\* Mutant: main goes on when at least one of the names is set.
MainEnvCheck_any(e) == \E n \in EnvNames : EnvSet(e[n])

\* main, line 491: all([getenv("DB_USER"), getenv("DB_PASSWORD"), getenv("DB_DSN")]).
MainEnvCheck(e) == \A n \in EnvNames : EnvSet(e[n])

\* _get_pool, lines 46-51: all([user, password, dsn]).
PoolEnvCheck(e) == \A n \in EnvNames : EnvSet(e[n])

InitPool ==
    /\ doc_ingest_jobs = Jobs
    /\ doc_chunks = [ c \in ChunkIds |->
                        [ job_id |-> 1, embed_vector |-> NULL, chunk_text |-> NULL ] ]
    /\ pc = "start"
    /\ held = 0
    /\ RunReset
    /\ first_result = NULL
    /\ admin = AdminIdle
    /\ env \in [ EnvNames -> EnvValues ]
    /\ pool = 0
    /\ pools_created = 0
    /\ env_loaded = FALSE
    /\ dotenv \in DotenvFiles
    /\ tpc = [ s \in Sessions |-> "main" ]
    /\ made = [ s \in Sessions |-> 0 ]
    /\ session_db = [ s \in Sessions |-> 0 ]
    /\ startup = [ s \in Sessions |-> NoStartup ]
    /\ issued = [ s \in Sessions |-> FALSE ]

PoolUnchanged == UNCHANGED << tabvars, first_result, admin, dotenv >>

\* main, lines 490-493: the Env check; st.error and return when a name is missing.
MainCheck(s) ==
    /\ tpc[s] = "main"
    /\ IF MainEnvCheck(env)
       THEN /\ startup' = [ startup EXCEPT ![s].missing = Missing(env),
                                           ![s].report = "ok" ]
            /\ tpc' = [ tpc EXCEPT ![s] = "get_db" ]
       ELSE /\ startup' = [ startup EXCEPT ![s].missing = Missing(env),
                                           ![s].report = "config_error" ]
            /\ tpc' = [ tpc EXCEPT ![s] = "stopped" ]
    /\ UNCHANGED << env, pool, pools_created, env_loaded, made, session_db, issued >>
    /\ PoolUnchanged

\* get_db, lines 45-47: a session that has "db" keeps it, another constructs
\* DatabaseManager, whose __init__ calls _get_pool.
GetDb(s) ==
    /\ tpc[s] = "get_db"
    /\ tpc' = [ tpc EXCEPT ![s] = IF session_db[s] # 0 THEN "tabs" ELSE "pool_check" ]
    /\ UNCHANGED << env, pool, pools_created, env_loaded, made, session_db, startup, issued >>
    /\ PoolUnchanged

\* _get_pool, lines 41-42: `if _pool is not None: return _pool`.
PoolCheck(s) ==
    /\ tpc[s] = "pool_check"
    /\ IF pool # 0
       THEN /\ session_db' = [ session_db EXCEPT ![s] = pool ]
            /\ startup' = [ startup EXCEPT ![s].stored = TRUE ]
            /\ tpc' = [ tpc EXCEPT ![s] = "tabs" ]
       ELSE /\ tpc' = [ tpc EXCEPT ![s] = "load_env" ]
            /\ UNCHANGED << session_db, startup >>
    /\ UNCHANGED << env, pool, pools_created, env_loaded, made, issued >>
    /\ PoolUnchanged

\* _get_pool, line 43: _load_env (lines 17-36), once per process.
LoadEnv(s) ==
    /\ tpc[s] = "load_env"
    /\ env' = IF env_loaded THEN env ELSE load_dotenv(env, dotenv)
    /\ env_loaded' = TRUE
    /\ tpc' = [ tpc EXCEPT ![s] = "pool_env" ]
    /\ UNCHANGED << pool, pools_created, made, session_db, startup, issued >>
    /\ PoolUnchanged

\* _get_pool, lines 46-52: ValueError when a name is missing.  Nothing between
\* here and Streamlit catches it: the run ends with the exception.
PoolEnv(s) ==
    /\ tpc[s] = "pool_env"
    /\ IF PoolEnvCheck(env)
       THEN /\ tpc' = [ tpc EXCEPT ![s] = "create_pool" ]
            /\ UNCHANGED startup
       ELSE /\ tpc' = [ tpc EXCEPT ![s] = "crashed" ]
            /\ startup' = [ startup EXCEPT ![s].report = "ValueError" ]
    /\ UNCHANGED << env, pool, pools_created, env_loaded, made, session_db, issued >>
    /\ PoolUnchanged

\* _get_pool, lines 65-71: oracledb.create_pool(...) returns a new pool or raises.
CreatePool(s, ok) ==
    /\ tpc[s] = "create_pool"
    /\ IF ok
       THEN /\ pools_created' = pools_created + 1
            /\ made' = [ made EXCEPT ![s] = pools_created + 1 ]
            /\ tpc' = [ tpc EXCEPT ![s] = "assign" ]
            /\ UNCHANGED startup
       ELSE /\ tpc' = [ tpc EXCEPT ![s] = "crashed" ]
            /\ startup' = [ startup EXCEPT ![s].report = "create_pool_error" ]
            /\ UNCHANGED << pools_created, made >>
    /\ UNCHANGED << env, pool, env_loaded, session_db, issued >>
    /\ PoolUnchanged

\* _get_pool, line 65: the store into the global, `_pool = ...`.
AssignPool(s) ==
    /\ tpc[s] = "assign"
    /\ pool' = made[s]
    /\ tpc' = [ tpc EXCEPT ![s] = "return" ]
    /\ UNCHANGED << env, pools_created, env_loaded, made, session_db, startup, issued >>
    /\ PoolUnchanged

\* _get_pool, line 72: `return _pool` reads the global again; __init__ (line 79)
\* and get_db (line 46) store what it returned.
ReturnPool(s) ==
    /\ tpc[s] = "return"
    /\ session_db' = [ session_db EXCEPT ![s] = pool ]
    /\ startup' = [ startup EXCEPT ![s].stored = TRUE ]
    /\ tpc' = [ tpc EXCEPT ![s] = "tabs" ]
    /\ UNCHANGED << env, pool, pools_created, env_loaded, made, issued >>
    /\ PoolUnchanged

\* main, lines 497-508: the two tabs are rendered; their statements, embedding
\* and chat calls are issued from here on.
RenderTabs(s) ==
    /\ tpc[s] = "tabs"
    /\ issued' = [ issued EXCEPT ![s] = TRUE ]
    /\ tpc' = [ tpc EXCEPT ![s] = "done" ]
    /\ UNCHANGED << env, pool, pools_created, env_loaded, made, session_db, startup >>
    /\ PoolUnchanged

\* The next script run of the session: st.session_state is kept, the rest of
\* the run starts over.
MainRerun(s) ==
    /\ tpc[s] \in { "done", "stopped", "crashed" }
    /\ tpc' = [ tpc EXCEPT ![s] = "main" ]
    /\ startup' = [ startup EXCEPT ![s] = NoStartup ]
    /\ made' = [ made EXCEPT ![s] = 0 ]
    /\ issued' = [ issued EXCEPT ![s] = FALSE ]
    /\ UNCHANGED << env, pool, pools_created, env_loaded, session_db >>
    /\ PoolUnchanged

NextPool ==
    \E s \in Sessions :
        \/ MainCheck(s)
        \/ GetDb(s)
        \/ PoolCheck(s)
        \/ LoadEnv(s)
        \/ PoolEnv(s)
        \/ \E ok \in BOOLEAN : CreatePool(s, ok)
        \/ AssignPool(s)
        \/ ReturnPool(s)
        \/ RenderTabs(s)
        \/ MainRerun(s)

SpecPool == InitPool /\ [][NextPool]_vars

(***************************************************************************)
(* The Admin tab: render_admin_tab and the helpers of lines 171-260.       *)
(* One script run lists the scheduler jobs, handles the button that was    *)
(* clicked (toggle a job, run a procedure, or none) and shows the ingest   *)
(* status.  st.rerun() after a successful mutation starts the script again.*)
(***************************************************************************)
InitAdmin ==
    /\ doc_ingest_jobs = Jobs
    /\ doc_chunks = [ c \in ChunkIds |->
                        [ job_id |-> 1, embed_vector |-> NULL, chunk_text |-> NULL ] ]
    /\ pc = "list_acquire"
    /\ held = 0
    /\ RunReset
    /\ first_result = NULL
    /\ \E enabled \in [ SchedulerJobs -> BOOLEAN ] : admin = AdminFresh(enabled)
    /\ env = [ n \in EnvNames |-> Some("x") ]
    /\ PoolIdle

AdminUnchanged ==
    UNCHANGED << doc_ingest_jobs, doc_chunks, doc_names, selected_doc, query, top_k,
                 embeddings, calls, db_failed, search_status, chunks,
                 chat_context, response, answer, outcome, first_result, poolvars >>

Attempt(a, op) == [ a EXCEPT !.attempts = Append(@, op) ]

\* Lines 194-196 and 233-235: a failed read is logged, an empty listing returned.
ReadFailed(a, op) == [ a EXCEPT !.failed = @ \cup { op } ]

\* Lines 245-248 and 257-260: logger.error, st.error(...), return False.
MutationFailed(a, op) ==
    [ a EXCEPT !.failed = @ \cup { op }, !.shown = @ \cup { op }, !.result = Some(FALSE) ]

\* get_scheduler_jobs (lines 181-182): db.execute_query, acquire.
ListAcquire(ok) ==
    /\ pc = "list_acquire"
    /\ IF ok
       THEN /\ held' = PoolAcquire(held)
            /\ admin' = Attempt(admin, "list_jobs")
            /\ pc' = "list_exec"
       ELSE /\ admin' = [ ReadFailed(Attempt(admin, "list_jobs"), "list_jobs")
                            EXCEPT !.listed = Some(<< >>) ]
            /\ pc' = "admin_buttons"
            /\ UNCHANGED held
    /\ UNCHANGED button
    /\ AdminUnchanged

\* ... execute, fetchall, finally release; lines 183-196.  The listing is the
\* job names with their enabled flag, or [] after a failure.
ListExec(ok) ==
    /\ pc = "list_exec"
    /\ held' = FinallyRelease(held, ok)
    /\ admin' = IF ok
                THEN [ admin EXCEPT !.listed = Some(admin.scheduler) ]
                ELSE [ ReadFailed(admin, "list_jobs") EXCEPT !.listed = Some(<< >>) ]
    /\ pc' = "admin_buttons"
    /\ UNCHANGED button
    /\ AdminUnchanged

\* Lines 379-433: the button of this run.  A toggle button exists only for
\* a listed job; "none" is a run without an Admin button.
AdminButton(b, t) ==
    /\ pc = "admin_buttons"
    /\ \/ b = "none" /\ t = ""
       \/ b = "toggle" /\ t \in DOMAIN Val(admin.listed)
       \/ b = "run_procedure" /\ t \in Procedures
    /\ button' = b
    /\ admin' = [ admin EXCEPT !.target = t ]
    /\ pc' = IF b = "none" THEN "summary_acquire" ELSE "mutation_acquire"
    /\ UNCHANGED held
    /\ AdminUnchanged

\* toggle_scheduler_job / run_procedure: db.execute_procedure, acquire.
MutationAcquire(ok) ==
    /\ pc = "mutation_acquire"
    /\ IF ok
       THEN /\ held' = PoolAcquire(held)
            /\ admin' = Attempt(admin, button)
            /\ pc' = "mutation_exec"
       ELSE /\ admin' = MutationFailed(Attempt(admin, button), button)
            /\ pc' = "summary_acquire"
            /\ UNCHANGED held
    /\ UNCHANGED button
    /\ AdminUnchanged

\* ... cursor.execute, conn.commit, return True / except: raise / finally
\* release (oracle_db.py 111-122).  On True the caller shows st.success and
\* calls st.rerun(): the script starts again.  The toggle enables a job that
\* was listed disabled and disables one that was listed enabled.
MutationExec(result) ==
    /\ pc = "mutation_exec"
    /\ held' = FinallyRelease(held, result = "ok")
    /\ IF result = "ok"
       THEN /\ admin' = [ admin EXCEPT
                            !.result = Some(TRUE),
                            !.committed = TRUE,
                            !.scheduler = IF button = "toggle"
                                          THEN [ @ EXCEPT ![admin.target] = ~Val(admin.listed)[admin.target] ]
                                          ELSE @ ]
            /\ pc' = "admin_rerun"
       ELSE /\ admin' = MutationFailed(admin, button)
            /\ pc' = "summary_acquire"
    /\ UNCHANGED button
    /\ AdminUnchanged

\* get_ingest_job_status (line 217): the summary query, acquire.
SummaryAcquire(ok) ==
    /\ pc = "summary_acquire"
    /\ IF ok
       THEN /\ held' = PoolAcquire(held)
            /\ admin' = Attempt(admin, "ingest_summary")
            /\ pc' = "summary_exec"
       ELSE /\ admin' = ReadFailed(Attempt(admin, "ingest_summary"), "ingest_summary")
            /\ pc' = "admin_done"
            /\ UNCHANGED held
    /\ UNCHANGED button
    /\ AdminUnchanged

\* ... execute, fetchall, finally release.  A failure skips the second
\* query: both sit in one try block (lines 216-235).
SummaryExec(ok) ==
    /\ pc = "summary_exec"
    /\ held' = FinallyRelease(held, ok)
    /\ admin' = IF ok THEN admin ELSE ReadFailed(admin, "ingest_summary")
    /\ pc' = IF ok THEN "recent_acquire" ELSE "admin_done"
    /\ UNCHANGED button
    /\ AdminUnchanged

\* get_ingest_job_status (line 218): the recent-jobs query, acquire.
RecentAcquire(ok) ==
    /\ pc = "recent_acquire"
    /\ IF ok
       THEN /\ held' = PoolAcquire(held)
            /\ admin' = Attempt(admin, "ingest_recent")
            /\ pc' = "recent_exec"
       ELSE /\ admin' = ReadFailed(Attempt(admin, "ingest_recent"), "ingest_recent")
            /\ pc' = "admin_done"
            /\ UNCHANGED held
    /\ UNCHANGED button
    /\ AdminUnchanged

\* ... execute, fetchall, finally release; lines 219-235, 440-484.
RecentExec(ok) ==
    /\ pc = "recent_exec"
    /\ held' = FinallyRelease(held, ok)
    /\ admin' = IF ok THEN admin ELSE ReadFailed(admin, "ingest_recent")
    /\ pc' = "admin_done"
    /\ UNCHANGED button
    /\ AdminUnchanged

\* The next script run: st.rerun() after a successful mutation, or the next
\* interaction of the operator.
AdminRerun ==
    /\ pc \in { "admin_rerun", "admin_done" }
    /\ admin' = AdminFresh(admin.scheduler)
    /\ button' = "none"
    /\ pc' = "list_acquire"
    /\ UNCHANGED held
    /\ AdminUnchanged

MutationResults == { "ok", "execute_fails", "commit_fails" }

NextAdmin ==
    \/ \E ok \in BOOLEAN : ListAcquire(ok)
    \/ \E ok \in BOOLEAN : ListExec(ok)
    \/ \E b \in { "none", "toggle", "run_procedure" }, t \in { "" } \cup SchedulerJobs \cup Procedures :
          AdminButton(b, t)
    \/ \E ok \in BOOLEAN : MutationAcquire(ok)
    \/ \E result \in MutationResults : MutationExec(result)
    \/ \E ok \in BOOLEAN : SummaryAcquire(ok)
    \/ \E ok \in BOOLEAN : SummaryExec(ok)
    \/ \E ok \in BOOLEAN : RecentAcquire(ok)
    \/ \E ok \in BOOLEAN : RecentExec(ok)
    \/ AdminRerun

SpecAdmin == InitAdmin /\ [][NextAdmin]_vars

(***************************************************************************)
(* search_chunks_by_doc called twice with the same document, query vector  *)
(* and top_k on an unchanged store.  In both calls the embedding call      *)
(* returns the query vector and both statements succeed, so each call      *)
(* returns what its similarity statement delivered.                        *)
(***************************************************************************)
InitRepeat ==
    /\ doc_ingest_jobs = Jobs
    /\ doc_chunks \in Stores
    /\ pc = "repeat_first"
    /\ held = 0
    /\ doc_names = DistinctDocumentNames(Jobs, doc_chunks)
    /\ selected_doc \in Docs
    /\ query = "q"
    /\ top_k \in 1..MaxTopK
    /\ button = "search_only"
    /\ embeddings = [ raised |-> FALSE, value |-> Some(<< QueryVector >>) ]
    /\ calls = << >>
    /\ db_failed = {}
    /\ search_status = "none"
    /\ chunks = << >>
    /\ chat_context = NULL
    /\ response = NoResponse
    /\ answer = NULL
    /\ outcome = "rendering"
    /\ ExtIdle

\* the first call: lines 99-165 on the success path
RepeatFirst ==
    /\ pc = "repeat_first"
    /\ \E rows \in SimilarityQuery(doc_ingest_jobs, doc_chunks, selected_doc, top_k) :
          first_result' = Some(ResultList(rows))
    /\ pc' = "repeat_second"
    /\ UNCHANGED << doc_ingest_jobs, doc_chunks, doc_names, selected_doc, query, top_k,
                    button, embeddings, held, calls, db_failed, search_status, chunks,
                    chat_context, response, answer, outcome, admin, poolvars >>

\* the second call, same arguments, same store
RepeatSecond ==
    /\ pc = "repeat_second"
    /\ \E rows \in SimilarityQuery(doc_ingest_jobs, doc_chunks, selected_doc, top_k) :
          chunks' = ResultList(rows)
    /\ search_status' = "returned"
    /\ pc' = "repeat_done"
    /\ UNCHANGED << doc_ingest_jobs, doc_chunks, doc_names, selected_doc, query, top_k,
                    button, embeddings, held, calls, db_failed,
                    chat_context, response, answer, outcome, extvars >>

NextRepeat == RepeatFirst \/ RepeatSecond

SpecRepeat == InitRepeat /\ [][NextRepeat]_vars

(***************************************************************************)
(* Properties.                                                             *)
(***************************************************************************)
Called(x) == \E i \in 1..Len(calls) : calls[i] = x

\* search_chunks_by_doc was entered in this run and control is back in
\* render_knowledge_bot_tab.
SearchOver == Called("embed") /\ pc \in { "after_search", "chat", "done", "crashed" }

\* the embedding call returned exactly one vector
OneVector == ~embeddings.raised /\ embeddings.value = Some(<< QueryVector >>)

\* chunks whose owning job has object_name d and whose embed_vector is non-null
EligibleChunks(d) ==
    { c \in ChunkIds : /\ doc_ingest_jobs[doc_chunks[c].job_id] = d
                       /\ doc_chunks[c].embed_vector # NULL }

ReturnedIds == { chunks[i].chunk_id : i \in 1..Len(chunks) }

\* a NULL distance counts as larger than every distance (it sorts last)
DistKey(x) == IF x = NULL THEN MaxDist + 1 ELSE x[1]

\* C1: when the embedding call returned exactly one vector and no database
\* statement failed, search_chunks_by_doc returns exactly
\* min(top_k, number of eligible chunks of the document) results.
C1_ResultLength ==
    (SearchOver /\ OneVector /\ db_failed = {} /\ search_status = "returned")
        => Len(chunks) = Min(top_k, Cardinality(EligibleChunks(selected_doc)))

\* C1 witness: top_k = 1 cuts a document with two eligible chunks down to one row.
C1_Witness ==
    /\ SearchOver /\ OneVector /\ db_failed = {} /\ search_status = "returned"
    /\ top_k = 1
    /\ Cardinality(EligibleChunks(selected_doc)) = 2
    /\ Len(chunks) = 1

\* C2: every returned result is a chunk of the selected document with a
\* non-null embedding, reported once; a document with no eligible chunk
\* yields the empty sequence.
C2_OnlyEligible ==
    /\ \A i \in 1..Len(chunks) :
          /\ chunks[i].chunk_id \in EligibleChunks(selected_doc)
          /\ chunks[i].job_id = doc_chunks[chunks[i].chunk_id].job_id
          /\ chunks[i].object_name = selected_doc
    /\ EligibleChunks(selected_doc) = {} => chunks = << >>

\* C2 witness: the search succeeded on a store that holds, next to a returned
\* chunk, a chunk of the same document without embedding, and top_k had room
\* for it.
C2_Witness ==
    /\ SearchOver /\ search_status = "returned" /\ db_failed = {}
    /\ top_k = 2
    /\ Len(chunks) = 1
    /\ \E c \in ChunkIds :
          /\ doc_ingest_jobs[doc_chunks[c].job_id] = selected_doc
          /\ doc_chunks[c].embed_vector = NULL

\* C3: the returned sequence is ordered by non-decreasing distance, each
\* reported distance is the chunk's distance to the query, and no eligible
\* chunk that was left out is strictly closer than a returned one.
C3_OrderedTopK ==
    SearchOver =>
        /\ \A i \in 1..Len(chunks) :
              chunks[i].similarity
                 = doc_chunks[chunks[i].chunk_id].embed_vector[1].distance
        /\ \A i, j \in 1..Len(chunks) :
              i < j => DistKey(chunks[i].similarity) <= DistKey(chunks[j].similarity)
        /\ \A c \in EligibleChunks(selected_doc) \ ReturnedIds :
              \A i \in 1..Len(chunks) :
                 DistKey(chunks[i].similarity)
                    <= DistKey(doc_chunks[c].embed_vector[1].distance)

\* C3 witness: two rows come back, the closer one first.
C3_Witness ==
    /\ SearchOver
    /\ Len(chunks) = 2
    /\ chunks[1].similarity = Some(0)
    /\ chunks[2].similarity = Some(1)

\* C4: when the embedding adapter raises or returns a list whose length is
\* not 1, search_chunks_by_doc returns the empty sequence, raises nothing and
\* issues neither the count query nor the similarity query.
C4_EmbeddingFailure ==
    (Called("embed") /\ (embeddings.raised \/ embeddings.value = NULL
                         \/ Len(embeddings.value[1]) # 1))
        => /\ search_status = "returned"
           /\ chunks = << >>
           /\ ~Called("count")
           /\ ~Called("similarity")
           /\ held = 0

\* C4 witness: the adapter answered the one-element batch with two vectors.
C4_Witness ==
    /\ Called("embed")
    /\ ~embeddings.raised
    /\ embeddings.value # NULL
    /\ Len(embeddings.value[1]) = 2
    /\ pc = "after_search"

\* C5 as claimed: whenever a database statement of search_chunks_by_doc
\* failed (count query or similarity query), the function returned the empty
\* sequence without raising.
C5_AnyFailureGivesEmpty ==
    (SearchOver /\ db_failed # {})
        => (search_status = "returned" /\ chunks = << >>)

\* C5 amended: no database failure leaves search_chunks_by_doc as an
\* exception; a failed similarity query gives the empty sequence; a failed
\* count query alone does not change the result, which is still the
\* min(top_k, eligible) rows of the similarity query.
C5_FailureHandling ==
    (SearchOver /\ db_failed # {})
        => /\ search_status = "returned"
           /\ "similarity" \in db_failed => chunks = << >>
           /\ db_failed = { "count" } =>
                 Len(chunks) = Min(top_k, Cardinality(EligibleChunks(selected_doc)))

\* C5 witness: the count query failed and the similarity query still
\* delivered rows.
C5_Witness ==
    /\ SearchOver
    /\ db_failed = { "count" }
    /\ search_status = "returned"
    /\ chunks # << >>

\* C6: chat_with_context is never invoked with an empty context string
\* (stated for the runs the claim certainly covers: every database statement
\* succeeded and every returned row carries a distance).
C6_NoEmptyContext ==
    (Called("chat") /\ db_failed = {} /\ ~FormatRaises(chunks))
        => (chat_context # NULL /\ chat_context[1] # << >>)

C8_AlwaysRenders == (db_failed = {} /\ ~embeddings.raised) => pc # "crashed"

\* the recognised attribute paths, in probing order
ProbeOrder ==
    << "data.chat_response.message.content", "data.chat_response.content",
       "data.chat_response.text", "data.content", "content" >>

\* path p and every object on the way to it exist on the response
Present(p) ==
    /\ p \in response.attrs
    /\ Parent(p) \in response.attrs
    /\ Parent(Parent(p)) \in response.attrs
    /\ Parent(Parent(Parent(p))) \in response.attrs

ChatReturned == pc = "chat_done" \/ Called("chat")

\* C9: chat_with_context returns None when the hosted call fails or the
\* response matches no probed path, and otherwise the value found at the
\* first matching path in probing order.
C9_ChatResult ==
    ChatReturned =>
        /\ response.raises => answer = NULL
        /\ (\A i \in 1..Len(ProbeOrder) : ~Present(ProbeOrder[i])) => answer = NULL
        /\ \A i \in 1..Len(ProbeOrder) :
              ( /\ ~response.raises
                /\ Present(ProbeOrder[i])
                /\ \A j \in 1..(i - 1) : ~Present(ProbeOrder[j]) )
              => answer = Some([ path |-> ProbeOrder[i], text |-> response.reply ])

\* C9 witness: the response carries chat_response.content and
\* chat_response.text but no message.content; the content value is returned.
C9_Witness ==
    /\ pc = "chat_done"
    /\ ~response.raises
    /\ "data.chat_response.content" \in response.attrs
    /\ "data.chat_response.text" \in response.attrs
    /\ "data.chat_response.message.content" \notin response.attrs
    /\ answer # NULL
    /\ answer[1].path = "data.chat_response.content"

\* start of the i-th chunk text inside the context
RECURSIVE TextOffset(_)
TextOffset(i) ==
    IF i = 1 THEN 1
    ELSE TextOffset(i - 1) + Len(chunks[i - 1].chunk_text) + Len(Separator)

\* C10: the context handed to chat_with_context is the chunk texts of the
\* retrieved results in result order, each one whole, every two neighbours
\* separated by "\n\n", and nothing else.
C10_ContextIsJoin ==
    (pc = "chat" \/ Called("chat")) =>
        /\ chat_context # NULL
        /\ chunks # << >>
        /\ LET ctx == chat_context[1]
               n == Len(chunks)
           IN /\ Len(ctx) = TextOffset(n) + Len(chunks[n].chunk_text) - 1
              /\ \A i \in 1..n :
                    LET t == chunks[i].chunk_text
                        at == TextOffset(i)
                    IN /\ SubSeq(ctx, at, at + Len(t) - 1) = t
                       /\ i < n => SubSeq(ctx, at + Len(t), at + Len(t) + 1) = Separator

\* C10 witness: two results with different texts, joined in result order.
C10_Witness ==
    /\ Called("chat")
    /\ Len(chunks) = 2
    /\ chunks[1].chunk_text = << "b" >>
    /\ chunks[2].chunk_text = << "a" >>
    /\ chat_context = Some(<< "b", "\n", "\n", "a" >>)


\* the chunk identifiers of a result list, in order
IdsOf(rs) == [ i \in 1..Len(rs) |-> rs[i].chunk_id ]

\* C11: two calls of search_chunks_by_doc with the same document, query
\* vector and top_k on an unchanged chunk set return the same chunk
\* identifiers in the same order, ties in distance included (stated for
\* results whose rows all carry a distance).
C11_RepeatIdentical ==
    (pc = "repeat_done" /\ \A i \in 1..Len(chunks) : chunks[i].similarity # NULL)
        => IdsOf(first_result[1]) = IdsOf(chunks)


\* how often request x was issued in this run, and where in the run
CountOf(x) == Cardinality({ i \in 1..Len(calls) : calls[i] = x })
PosOf(x) == CHOOSE i \in 1..Len(calls) : calls[i] = x

\* C12: in one run the embedding call, the similarity query and the chat
\* call each happen at most once and in this order: the similarity query is
\* issued only after the embedding call returned its vector, the chat call
\* only after the similarity query returned, and no later step has begun
\* while an earlier one is in progress.
C12_OneRunInOrder ==
    /\ CountOf("embed") <= 1
    /\ CountOf("similarity") <= 1
    /\ CountOf("chat") <= 1
    /\ Called("similarity") =>
          /\ Called("embed")
          /\ PosOf("embed") < PosOf("similarity")
          /\ OneVector
    /\ Called("chat") =>
          /\ Called("similarity")
          /\ PosOf("similarity") < PosOf("chat")
          /\ search_status = "returned"
          /\ button = "ask_rag"
    /\ pc = "embed" => (~Called("embed") /\ ~Called("similarity") /\ ~Called("chat"))
    /\ pc \in { "count_acquire", "count_exec", "sim_acquire", "sim_exec" } => ~Called("chat")
    /\ pc = "sim_acquire" => ~Called("similarity")

\* C12 witness: a "Get RAG answer" click that went through all three steps.
C12_Witness ==
    /\ pc = "done"
    /\ button = "ask_rag"
    /\ Strip(query) # ""
    /\ outcome = "answer_shown"
    /\ calls = << "names", "embed", "count", "similarity", "chat" >>

AttemptsOf(op) == Cardinality({ i \in 1..Len(admin.attempts) : admin.attempts[i] = op })

\* C13: every failure of an admin operation (scheduler-job listing, ingest-status
\* queries, toggle_scheduler_job, run_procedure) is displayed to the operator as
\* an error, none is raised out of the admin view, the failed operation was
\* attempted exactly once, and toggle_scheduler_job / run_procedure return true
\* exactly when the statement executed and was committed.
C13_AdminFailuresDisplayed ==
    /\ admin.failed \subseteq admin.shown
    /\ ~admin.raised
    /\ \A op \in admin.failed : AttemptsOf(op) = 1
    /\ (admin.result = Some(TRUE)) <=> admin.committed

\* C14: when DB_USER, DB_PASSWORD or DB_DSN is missing at main's check, the run
\* reports the configuration error and stops: it creates no pool, stores no
\* DatabaseManager in the session and issues no statement, embedding or chat call.
C14_MissingConfigStops ==
    \A s \in Sessions :
        /\ startup[s].missing => startup[s].report = "config_error"
        /\ startup[s].report = "config_error"
               => /\ tpc[s] = "stopped"
                  /\ made[s] = 0
                  /\ ~startup[s].stored
                  /\ ~issued[s]

C14_Witness ==
    \E s \in Sessions :
        /\ startup[s].missing
        /\ tpc[s] = "stopped"
        /\ IsNull(env["DB_DSN"]) /\ EnvSet(env["DB_USER"]) /\ EnvSet(env["DB_PASSWORD"])

\* C15: the module-level pool is a singleton under every interleaving of the
\* sessions: create_pool returns at most one pool per process and every
\* DatabaseManager references the same pool object.
C15_PoolSingleton ==
    /\ pools_created <= 1
    /\ \A s, t \in Sessions :
           (session_db[s] # 0 /\ session_db[t] # 0) => session_db[s] = session_db[t]


=============================================================================
